---- MODULE Spec2Model ----
(***************************************************************************)
(* The two example drivers of the fluxio C API, capi/examples/client.c     *)
(* (GET, whole-body foreach) and capi/examples/upload.c (POST with a       *)
(* streamed request body, response pulled chunk by chunk).  Both hold one  *)
(* connection with two waker slots, run the same drain/wait polling loop   *)
(* and dispatch completed tasks on the tag stored in the task's userdata.  *)
(*                                                                         *)
(* The engine behind fluxio.h (executor, tasks, wakers, bodies) is not     *)
(* part of the example sources; it is modelled from its documented         *)
(* contract, as an environment that polls tasks, calls read_cb, write_cb,  *)
(* poll_req_upload and print_each_chunk, and completes or suspends tasks.  *)
(***************************************************************************)
EXTENDS Integers, Sequences, FiniteSets, TLC

VARIABLES
  variant,      \* which example runs: "client" or "upload"
  pc,           \* main: "drain" (inner while), "wait" (at select), "exit0", "exit1"
  read_waker,   \* conn->read_waker: NULL or a waker handle
  write_waker,  \* conn->write_waker
  resp_body,    \* upload.c's resp_body: "null", "held", "freed"
  out,          \* chunk ids handed to write(1, ...), in call order
  sink_failed,  \* some write(1, ...) did not write its bytes
  hdr_iter,     \* calls of fluxio_headers_foreach on the response headers
  released,     \* what the driver has released: "client", "resp", "err", "exec",
                \* "conn", "read_waker", "write_waker", "upload_buf"
  freed_chunks, \* chunk ids given to fluxio_buf_free, in call order
  hist,         \* the request's tag chain: pushes and completions, in order
  tasks,        \* engine: every task the driver has pushed so far
  bg,           \* engine: its own background tasks (no userdata) that completed
  polling,      \* engine: the task whose future is being polled, or 0
  pend,         \* engine: directions that returned pending during this poll
  wk,           \* engine: every waker handle, its state, slot direction and task
  last_cb,      \* what the I/O callback that has just returned did
  body_len,     \* engine: number of chunks of the response body
  body_sent,    \* engine: chunks of the response body handed out so far
  file_len,     \* length of the upload source
  file_pos,     \* kernel file offset of upload.fd
  up_polls,     \* ready results of poll_req_upload: <<offset, length>> of the
                \* chunk, length 0 for the NULL chunk that ends the stream
  up_state,     \* "open", "eos" (ready with NULL chunk), "error"
  up_last,      \* what the last call of poll_req_upload returned
  short_reads   \* reads of the upload source that returned less than asked

vars == <<variant, pc, read_waker, write_waker, resp_body, out, sink_failed,
          hdr_iter, released, freed_chunks, hist, tasks, bg, polling,
          pend, wk, last_cb, body_len, body_sent, file_len, file_pos,
          up_polls, up_state, up_last, short_reads>>

(***************************************************************************)
(* Bounds of the model.                                                    *)
(***************************************************************************)
MaxWakers == 3
MaxChunks == 2
MaxBufs == 2
MaxShortReads == 1
MaxBg == 1

(***************************************************************************)
(* Program constants.                                                      *)
(***************************************************************************)
NULL == 0
upload_len == 8192

EXAMPLE_NOT_SET == "EXAMPLE_NOT_SET"
EXAMPLE_HANDSHAKE == "EXAMPLE_HANDSHAKE"
EXAMPLE_SEND == "EXAMPLE_SEND"
EXAMPLE_RESP_BODY == "EXAMPLE_RESP_BODY"

Dirs == {"r", "w"}

Slot(d) == IF d = "r" THEN read_waker ELSE write_waker

\* What read(2)/write(2) on the non-blocking socket can return.
SockResults ==
  {[n |-> 0, errno |-> "none"], [n |-> 1, errno |-> "none"],
   [n |-> -1, errno |-> "EAGAIN"], [n |-> -1, errno |-> "ECONNRESET"]}

(***************************************************************************)
(* Engine: waker handles.                                                  *)
(***************************************************************************)
Handles == 1..MaxWakers

NoWaker == [st |-> "unused", dir |-> "-", task |-> 0]

Obtained == {w \in Handles : wk[w].st # "unused"}

Live(d) == {w \in Handles : wk[w].st = "live" /\ wk[w].dir = d}

\* A handle is consumed by being fired or freed, and is gone then; consuming
\* a handle that is not live (fired or freed before) is a use after release.
Consume(W, w) ==
  [W EXCEPT ![w] = [st |-> IF @.st = "live" THEN "consumed" ELSE "misused",
                    dir |-> "-", task |-> 0]]

fluxio_waker_free(W, w) == Consume(W, w)

fluxio_waker_wake(W, w) == Consume(W, w)

\* fluxio_context_waker(ctx): a new handle bound to the task being polled.
NewWaker == Cardinality(Obtained) + 1

fluxio_context_waker(W, w, t, d) ==
  [W EXCEPT ![w] = [st |-> "live", dir |-> d, task |-> t]]

(***************************************************************************)
(* Engine: tasks.                                                          *)
(***************************************************************************)
NewTask(tag) ==
  [tag |-> tag, st |-> "runnable", type |-> "none", val |-> 0,
   polled |-> FALSE, ioerr |-> FALSE, freed |-> 0]

fluxio_executor_push(T, tag) == Append(T, NewTask(tag))

InExecutor(t) == tasks[t].st \in {"runnable", "suspended", "ready"}

TaskIds == 1..Len(tasks)

\* Firing a waker schedules its task for re-poll if the task is suspended.
Resume(T, t) ==
  IF T[t].st = "suspended" THEN [T EXCEPT ![t].st = "runnable"] ELSE T

Event(ev, tag, type) == [ev |-> ev, tag |-> tag, type |-> type]

\* fluxio_task_free(task)
fluxio_task_free(T, t) == [T EXCEPT ![t].freed = @ + 1]

NoCb ==
  [fn |-> "none", ret |-> "none", n |-> 0, errno |-> "none", waker |-> NULL,
   old |-> NULL]

(***************************************************************************)
(* read_cb and write_cb (the same in client.c and upload.c).  res is what  *)
(* read(2)/write(2) returned.                                              *)
(***************************************************************************)
\* read_cb that gives up the registered handle when the transfer fails.
read_cb_drop(res) ==
  IF res.n >= 0 THEN
    /\ last_cb' = [fn |-> "read_cb", ret |-> "COUNT", n |-> res.n,
                   errno |-> res.errno, waker |-> NULL, old |-> NULL]
    /\ UNCHANGED <<read_waker, write_waker, wk>>
  ELSE IF res.errno # "EAGAIN" THEN
    /\ last_cb' = [fn |-> "read_cb", ret |-> "FLUXIO_IO_ERROR", n |-> res.n,
                   errno |-> res.errno, waker |-> NULL, old |-> NULL]
    /\ wk' = (IF read_waker # NULL THEN fluxio_waker_free(wk, read_waker) ELSE wk)
    /\ read_waker' = NULL
    /\ UNCHANGED write_waker
  ELSE
    LET W == IF read_waker # NULL THEN fluxio_waker_free(wk, read_waker) ELSE wk
        w == NewWaker
    IN /\ wk' = fluxio_context_waker(W, w, polling, "r")
       /\ read_waker' = w
       /\ last_cb' = [fn |-> "read_cb", ret |-> "FLUXIO_IO_PENDING", n |-> res.n,
                      errno |-> res.errno, waker |-> w, old |-> read_waker]
       /\ UNCHANGED write_waker

\* read_cb with the release of the previous handle left out.
read_cb_leak(res) ==
  IF res.n >= 0 THEN
    /\ last_cb' = [fn |-> "read_cb", ret |-> "COUNT", n |-> res.n,
                   errno |-> res.errno, waker |-> NULL, old |-> NULL]
    /\ UNCHANGED <<read_waker, write_waker, wk>>
  ELSE IF res.errno # "EAGAIN" THEN
    /\ last_cb' = [fn |-> "read_cb", ret |-> "FLUXIO_IO_ERROR", n |-> res.n,
                   errno |-> res.errno, waker |-> NULL, old |-> NULL]
    /\ UNCHANGED <<read_waker, write_waker, wk>>
  ELSE
    LET w == NewWaker
    IN /\ wk' = fluxio_context_waker(wk, w, polling, "r")
       /\ read_waker' = w
       /\ last_cb' = [fn |-> "read_cb", ret |-> "FLUXIO_IO_PENDING", n |-> res.n,
                      errno |-> res.errno, waker |-> w, old |-> read_waker]
       /\ UNCHANGED write_waker

read_cb(res) ==
  IF res.n >= 0 THEN
    /\ last_cb' = [fn |-> "read_cb", ret |-> "COUNT", n |-> res.n,
                   errno |-> res.errno, waker |-> NULL, old |-> NULL]
    /\ UNCHANGED <<read_waker, write_waker, wk>>
  ELSE IF res.errno # "EAGAIN" THEN
    /\ last_cb' = [fn |-> "read_cb", ret |-> "FLUXIO_IO_ERROR", n |-> res.n,
                   errno |-> res.errno, waker |-> NULL, old |-> NULL]
    /\ UNCHANGED <<read_waker, write_waker, wk>>
  ELSE
    LET W == IF read_waker # NULL THEN fluxio_waker_free(wk, read_waker) ELSE wk
        w == NewWaker
    IN /\ wk' = fluxio_context_waker(W, w, polling, "r")
       /\ read_waker' = w
       /\ last_cb' = [fn |-> "read_cb", ret |-> "FLUXIO_IO_PENDING", n |-> res.n,
                      errno |-> res.errno, waker |-> w, old |-> read_waker]
       /\ UNCHANGED write_waker

\* write_cb that obtains the handle on a would-block and does not store it.
write_cb_unstored(res) ==
  IF res.n >= 0 THEN
    /\ last_cb' = [fn |-> "write_cb", ret |-> "COUNT", n |-> res.n,
                   errno |-> res.errno, waker |-> NULL, old |-> NULL]
    /\ UNCHANGED <<read_waker, write_waker, wk>>
  ELSE IF res.errno # "EAGAIN" THEN
    /\ last_cb' = [fn |-> "write_cb", ret |-> "FLUXIO_IO_ERROR", n |-> res.n,
                   errno |-> res.errno, waker |-> NULL, old |-> NULL]
    /\ UNCHANGED <<read_waker, write_waker, wk>>
  ELSE
    LET w == NewWaker
    IN /\ wk' = fluxio_context_waker(wk, w, polling, "w")
       /\ last_cb' = [fn |-> "write_cb", ret |-> "FLUXIO_IO_PENDING", n |-> res.n,
                      errno |-> res.errno, waker |-> w, old |-> write_waker]
       /\ UNCHANGED <<read_waker, write_waker>>

\* write_cb that registers a handle only when the slot is empty, and
\* otherwise returns pending with the handle of an earlier poll.
write_cb_stale(res) ==
  IF res.n >= 0 THEN
    /\ last_cb' = [fn |-> "write_cb", ret |-> "COUNT", n |-> res.n,
                   errno |-> res.errno, waker |-> NULL, old |-> NULL]
    /\ UNCHANGED <<read_waker, write_waker, wk>>
  ELSE IF res.errno # "EAGAIN" THEN
    /\ last_cb' = [fn |-> "write_cb", ret |-> "FLUXIO_IO_ERROR", n |-> res.n,
                   errno |-> res.errno, waker |-> NULL, old |-> NULL]
    /\ UNCHANGED <<read_waker, write_waker, wk>>
  ELSE IF write_waker # NULL THEN
    /\ last_cb' = [fn |-> "write_cb", ret |-> "FLUXIO_IO_PENDING", n |-> res.n,
                   errno |-> res.errno, waker |-> NULL, old |-> write_waker]
    /\ UNCHANGED <<read_waker, write_waker, wk>>
  ELSE
    LET w == NewWaker
    IN /\ wk' = fluxio_context_waker(wk, w, polling, "w")
       /\ write_waker' = w
       /\ last_cb' = [fn |-> "write_cb", ret |-> "FLUXIO_IO_PENDING", n |-> res.n,
                      errno |-> res.errno, waker |-> w, old |-> write_waker]
       /\ UNCHANGED read_waker

write_cb(res) ==
  IF res.n >= 0 THEN
    /\ last_cb' = [fn |-> "write_cb", ret |-> "COUNT", n |-> res.n,
                   errno |-> res.errno, waker |-> NULL, old |-> NULL]
    /\ UNCHANGED <<read_waker, write_waker, wk>>
  ELSE IF res.errno # "EAGAIN" THEN
    /\ last_cb' = [fn |-> "write_cb", ret |-> "FLUXIO_IO_ERROR", n |-> res.n,
                   errno |-> res.errno, waker |-> NULL, old |-> NULL]
    /\ UNCHANGED <<read_waker, write_waker, wk>>
  ELSE
    LET W == IF write_waker # NULL THEN fluxio_waker_free(wk, write_waker) ELSE wk
        w == NewWaker
    IN /\ wk' = fluxio_context_waker(W, w, polling, "w")
       /\ write_waker' = w
       /\ last_cb' = [fn |-> "write_cb", ret |-> "FLUXIO_IO_PENDING", n |-> res.n,
                      errno |-> res.errno, waker |-> w, old |-> write_waker]
       /\ UNCHANGED read_waker

(***************************************************************************)
(* free_conn_data (the same in client.c and upload.c).                     *)
(***************************************************************************)
\* free_conn_data that forgets the write waker.
free_conn_data_leak(also) ==
  LET W1 == IF read_waker # NULL THEN fluxio_waker_free(wk, read_waker) ELSE wk
  IN /\ wk' = W1
     /\ read_waker' = NULL
     /\ write_waker' = NULL
     /\ released' = released \cup also \cup {"conn"}
          \cup (IF read_waker # NULL THEN {"read_waker"} ELSE {})

\* also: what the caller releases around the call.
free_conn_data(also) ==
  LET W1 == IF read_waker # NULL THEN fluxio_waker_free(wk, read_waker) ELSE wk
      W2 == IF write_waker # NULL THEN fluxio_waker_free(W1, write_waker) ELSE W1
  IN /\ wk' = W2
     /\ read_waker' = NULL
     /\ write_waker' = NULL
     /\ released' = released \cup also \cup {"conn"}
          \cup (IF read_waker # NULL THEN {"read_waker"} ELSE {})
          \cup (IF write_waker # NULL THEN {"write_waker"} ELSE {})

(***************************************************************************)
(* upload.c: poll_req_upload.  res is what read(upload->fd, upload->buf,   *)
(* upload->len) returned; the kernel has advanced the file offset by it.   *)
(***************************************************************************)
Min(a, b) == IF a < b THEN a ELSE b

Remaining == file_len - file_pos

\* read(2) of the upload source: all that was asked for or all that is left,
\* fewer bytes (a pipe, a FIFO, an interrupted read), or a failure.
UploadReads ==
  {Min(upload_len, Remaining), -1}
    \cup (IF Remaining > 1 /\ short_reads < MaxShortReads THEN {1} ELSE {})

\* fluxio_buf_copy(upload->buf, res): the first res bytes of the buffer,
\* which hold the source's bytes from the offset the read started at.
fluxio_buf_copy(off, res) == <<off, res>>

\* poll_req_upload that takes a failed read for the end of the source.
poll_req_upload_eof(res) ==
  IF res > 0 THEN
    /\ up_polls' = Append(up_polls, fluxio_buf_copy(file_pos, res))
    /\ up_last' = "FLUXIO_POLL_READY"
    /\ UNCHANGED up_state
  ELSE
    /\ up_polls' = Append(up_polls, <<file_pos, 0>>)
    /\ up_last' = "FLUXIO_POLL_READY"
    /\ up_state' = "eos"

\* poll_req_upload that copies the whole buffer instead of the bytes read.
poll_req_upload_len(res) ==
  IF res > 0 THEN
    /\ up_polls' = Append(up_polls, fluxio_buf_copy(file_pos, upload_len))
    /\ up_last' = "FLUXIO_POLL_READY"
    /\ UNCHANGED up_state
  ELSE IF res = 0 THEN
    /\ up_polls' = Append(up_polls, <<file_pos, 0>>)
    /\ up_last' = "FLUXIO_POLL_READY"
    /\ up_state' = "eos"
  ELSE
    /\ up_last' = "FLUXIO_POLL_ERROR"
    /\ up_state' = "error"
    /\ UNCHANGED up_polls

poll_req_upload(res) ==
  IF res > 0 THEN
    /\ up_polls' = Append(up_polls, fluxio_buf_copy(file_pos, res))
    /\ up_last' = "FLUXIO_POLL_READY"
    /\ UNCHANGED up_state
  ELSE IF res = 0 THEN
    /\ up_polls' = Append(up_polls, <<file_pos, 0>>)
    /\ up_last' = "FLUXIO_POLL_READY"
    /\ up_state' = "eos"
  ELSE
    /\ up_last' = "FLUXIO_POLL_ERROR"
    /\ up_state' = "error"
    /\ UNCHANGED up_polls

(***************************************************************************)
(* client.c: print_each_chunk.  ok tells whether write(1, buf, len) wrote  *)
(* the bytes; the callback does not look at what write returned.           *)
(***************************************************************************)
print_each_chunk(chunk, ok) ==
  /\ out' = Append(out, chunk)
  /\ sink_failed' = (sink_failed \/ ~ok)

(***************************************************************************)
(* Engine (modelled from the interface's contract): one poll of a task's   *)
(* future inside fluxio_executor_poll.                                     *)
(***************************************************************************)
\* A handle obtained from task t's context is still outstanding (not fired,
\* not freed): the engine expects it to be fired.  The engine does not see
\* the connection's slots.
HasWaker(t) ==
  \E w \in Handles : wk[w].st = "live" /\ wk[w].task = t

driverVars == <<pc, resp_body, released, freed_chunks, hdr_iter>>
sinkVars == <<out, sink_failed>>
connVars == <<read_waker, write_waker, wk>>
uploadVars == <<file_len, file_pos, up_polls, up_state, up_last, short_reads>>
bodyVars == <<body_len, body_sent>>

EngineBegin(t) ==
  /\ pc = "drain"
  /\ polling = 0
  /\ tasks[t].st = "runnable"
  /\ polling' = t
  /\ pend' = {}
  /\ tasks' = [tasks EXCEPT ![t].polled = TRUE]
  /\ last_cb' = NoCb
  /\ UNCHANGED <<variant, driverVars, sinkVars, connVars, uploadVars, bodyVars,
                 hist, bg>>

DoesIO ==
  /\ polling # 0
  /\ ~tasks[polling].ioerr

AfterCb(d, res) ==
  /\ pend' = (IF res.errno = "EAGAIN" THEN pend \cup {d} ELSE pend)
  /\ tasks' = [tasks EXCEPT ![polling].ioerr = (res.n < 0 /\ res.errno # "EAGAIN")]
  /\ UNCHANGED <<variant, driverVars, sinkVars, uploadVars, bodyVars, hist, bg,
                 polling>>

EngineRead ==
  /\ DoesIO
  /\ "r" \notin pend
  /\ \E res \in SockResults :
       /\ res.errno = "EAGAIN" => NewWaker <= MaxWakers
       /\ read_cb(res)
       /\ AfterCb("r", res)

EngineWrite ==
  /\ DoesIO
  /\ "w" \notin pend
  /\ \E res \in SockResults :
       /\ res.errno = "EAGAIN" => NewWaker <= MaxWakers
       /\ write_cb(res)
       /\ AfterCb("w", res)

\* The request body is pulled while the send task runs, and never again
\* after the producer reported end-of-stream or an error.
EngineUpload ==
  /\ variant = "upload"
  /\ DoesIO
  /\ tasks[polling].tag = EXAMPLE_SEND
  /\ up_state = "open"
  /\ \E res \in UploadReads :
       /\ poll_req_upload(res)
       /\ file_pos' = (IF res > 0 THEN file_pos + res ELSE file_pos)
       /\ short_reads' =
            (IF res > 0 /\ res < Min(upload_len, Remaining)
             THEN short_reads + 1 ELSE short_reads)
  /\ last_cb' = NoCb
  /\ UNCHANGED <<variant, driverVars, sinkVars, connVars, bodyVars, hist, bg,
                 polling, pend, tasks, file_len>>

\* fluxio_body_foreach hands each chunk of the response body to the callback.
EngineChunk ==
  /\ variant = "client"
  /\ DoesIO
  /\ tasks[polling].tag = EXAMPLE_RESP_BODY
  /\ body_sent < body_len
  /\ \E ok \in BOOLEAN : print_each_chunk(body_sent + 1, ok)
  /\ body_sent' = body_sent + 1
  /\ last_cb' = NoCb
  /\ UNCHANGED <<variant, driverVars, connVars, uploadVars, body_len, hist, bg,
                 polling, pend, tasks>>

\* The future returned Pending, which it may do only with a live handle of
\* its own registered in a slot.
EngineSuspend ==
  /\ polling # 0
  /\ ~tasks[polling].ioerr
  /\ HasWaker(polling)
  /\ (variant = "upload" /\ tasks[polling].tag = EXAMPLE_SEND) => up_state # "error"
  /\ tasks' = [tasks EXCEPT ![polling].st = "suspended"]
  /\ polling' = 0
  /\ pend' = {}
  /\ last_cb' = NoCb
  /\ UNCHANGED <<variant, driverVars, sinkVars, connVars, uploadVars, bodyVars,
                 hist, bg>>

\* The result type a task completes with when it does not fail.
SuccessType(t) ==
  CASE tasks[t].tag = EXAMPLE_HANDSHAKE -> "FLUXIO_TASK_CLIENTCONN"
    [] tasks[t].tag = EXAMPLE_SEND -> "FLUXIO_TASK_RESPONSE"
    [] tasks[t].tag = EXAMPLE_RESP_BODY /\ variant = "upload" /\ body_sent < body_len
         -> "FLUXIO_TASK_BUF"
    [] OTHER -> "FLUXIO_TASK_EMPTY"

CanSucceed(t) ==
  /\ ~tasks[t].ioerr
  /\ (variant = "upload" /\ tasks[t].tag = EXAMPLE_SEND) => up_state # "error"
  /\ (variant = "client" /\ tasks[t].tag = EXAMPLE_RESP_BODY) => body_sent = body_len

\* The future returned Ready: the task will be surfaced by fluxio_executor_poll.
EngineComplete ==
  /\ polling # 0
  /\ \E ok \in BOOLEAN :
       /\ ok => CanSucceed(polling)
       /\ LET type == IF ok THEN SuccessType(polling) ELSE "FLUXIO_TASK_ERROR"
              chunk == IF type = "FLUXIO_TASK_BUF" THEN body_sent + 1 ELSE 0
          IN /\ tasks' = [tasks EXCEPT ![polling].st = "ready",
                                       ![polling].type = type,
                                       ![polling].val = chunk]
             /\ body_sent' = (IF chunk # 0 THEN chunk ELSE body_sent)
             /\ IF type = "FLUXIO_TASK_RESPONSE"
                THEN body_len' \in 0..MaxChunks
                ELSE body_len' = body_len
             /\ hist' = Append(hist, Event("done", tasks[polling].tag, type))
  /\ polling' = 0
  /\ pend' = {}
  /\ last_cb' = NoCb
  /\ UNCHANGED <<variant, driverVars, sinkVars, connVars, uploadVars, bg>>

\* One of the engine's own tasks (the connection's driver, spawned once the
\* handshake is done) completes inside fluxio_executor_poll.
Established ==
  \E i \in 1..Len(hist) :
    hist[i] = Event("done", EXAMPLE_HANDSHAKE, "FLUXIO_TASK_CLIENTCONN")

EngineBackground ==
  /\ pc = "drain"
  /\ polling = 0
  /\ Established
  /\ Len(bg) < MaxBg
  /\ bg' = Append(bg, [st |-> "ready", freed |-> 0])
  /\ last_cb' = NoCb
  /\ UNCHANGED <<variant, driverVars, sinkVars, connVars, uploadVars, bodyVars,
                 hist, tasks, polling, pend>>

(***************************************************************************)
(* The drain phase: fluxio_executor_poll returned task t, and the switch   *)
(* on its userdata.                                                        *)
(***************************************************************************)
\* fluxio_executor_poll returns a completed task, which leaves the executor.
Polled(t, tag) ==
  /\ pc = "drain"
  /\ polling = 0
  /\ tasks[t].st = "ready"
  /\ tasks[t].tag = tag

Taken(t) ==
  [tasks EXCEPT ![t].st = "taken", ![t].val = 0, ![t].ioerr = FALSE]

\* A break that leaves the drain loop instead of the switch.
AfterBreak_wait == "wait"

\* A break that leaves main.
AfterBreak_exit == "exit0"

\* Where main goes on after a case's break: the next fluxio_executor_poll.
AfterBreak == "drain"

\* The successor is pushed twice.
PushNext_twice(t, tag) ==
  fluxio_executor_push(
    fluxio_executor_push(fluxio_task_free(Taken(t), t), tag), tag)

\* The completed task is freed and its successor in the chain is pushed.
PushNext(t, tag) ==
  fluxio_executor_push(fluxio_task_free(Taken(t), t), tag)

\* The chunk is written twice.
EmitChunk_twice(o, chunk) == Append(Append(o, chunk), chunk)

\* write(1, fluxio_buf_bytes(chunk), fluxio_buf_len(chunk))
EmitChunk(o, chunk) == Append(o, chunk)

\* ---- client.c ----
\* The failed step is tried again instead of ending the request.
client_fail_retry(t) ==
  /\ pc' = "drain"
  /\ released' = released \cup {"err"}
  /\ tasks' = fluxio_executor_push(Taken(t), tasks[t].tag)

\* goto fail: the error is taken from the task, printed and freed; return 1.
client_fail(t) ==
  /\ pc' = "exit1"
  /\ released' = released \cup {"err"}
  /\ tasks' = Taken(t)

client_case_HANDSHAKE(t, uri_ok) ==
  /\ variant = "client"
  /\ Polled(t, EXAMPLE_HANDSHAKE)
  /\ IF tasks[t].type = "FLUXIO_TASK_ERROR" THEN
       /\ client_fail(t)
       /\ UNCHANGED hist
     ELSE IF ~uri_ok THEN
       \* fluxio_request_set_uri failed: return 1
       /\ pc' = "exit1"
       /\ tasks' = fluxio_task_free(Taken(t), t)
       /\ UNCHANGED <<released, hist>>
     ELSE
       /\ tasks' = PushNext(t, EXAMPLE_SEND)
       /\ hist' = Append(hist, Event("push", EXAMPLE_SEND, "none"))
       /\ released' = released \cup {"client"}
       /\ pc' = AfterBreak
  /\ last_cb' = NoCb
  /\ UNCHANGED <<variant, resp_body, freed_chunks, hdr_iter, sinkVars, connVars,
                 uploadVars, bodyVars, bg, polling, pend>>

client_case_SEND(t) ==
  /\ variant = "client"
  /\ Polled(t, EXAMPLE_SEND)
  /\ IF tasks[t].type = "FLUXIO_TASK_ERROR" THEN
       /\ client_fail(t)
       /\ UNCHANGED <<hist, hdr_iter>>
     ELSE
       /\ hdr_iter' = hdr_iter + 1
       /\ tasks' = PushNext(t, EXAMPLE_RESP_BODY)
       /\ hist' = Append(hist, Event("push", EXAMPLE_RESP_BODY, "none"))
       /\ released' = released \cup {"resp"}
       /\ pc' = AfterBreak
  /\ last_cb' = NoCb
  /\ UNCHANGED <<variant, resp_body, freed_chunks, sinkVars, connVars,
                 uploadVars, bodyVars, bg, polling, pend>>

client_case_RESP_BODY(t) ==
  /\ variant = "client"
  /\ Polled(t, EXAMPLE_RESP_BODY)
  /\ IF tasks[t].type = "FLUXIO_TASK_ERROR" THEN
       /\ client_fail(t)
       /\ UNCHANGED connVars
     ELSE
       \* FLUXIO_TASK_EMPTY: cleaning up before exiting, return 0
       /\ tasks' = fluxio_task_free(Taken(t), t)
       /\ free_conn_data({"exec"})
       /\ pc' = "exit0"
  /\ last_cb' = NoCb
  /\ UNCHANGED <<variant, resp_body, freed_chunks, hdr_iter, hist, sinkVars,
                 uploadVars, bodyVars, bg, polling, pend>>

\* The unset tag's case also pushes a task.
case_NOT_SET_push(b) ==
  /\ pc = "drain"
  /\ polling = 0
  /\ bg[b].st = "ready"
  /\ bg' = [bg EXCEPT ![b].st = "taken", ![b].freed = @ + 1]
  /\ tasks' = fluxio_executor_push(tasks, EXAMPLE_NOT_SET)
  /\ pc' = AfterBreak
  /\ last_cb' = NoCb
  /\ UNCHANGED <<variant, resp_body, released, freed_chunks, hdr_iter, hist,
                 sinkVars, connVars, uploadVars, bodyVars, polling, pend>>

\* The same in client.c and upload.c: a background task of the engine.
case_NOT_SET(b) ==
  /\ pc = "drain"
  /\ polling = 0
  /\ bg[b].st = "ready"
  /\ bg' = [bg EXCEPT ![b].st = "taken", ![b].freed = @ + 1]
  /\ pc' = AfterBreak
  /\ last_cb' = NoCb
  /\ UNCHANGED <<variant, resp_body, released, freed_chunks, hdr_iter, hist, tasks,
                 sinkVars, connVars, uploadVars, bodyVars, polling, pend>>

\* ---- upload.c ----
upload_case_HANDSHAKE(t, uri_ok) ==
  /\ variant = "upload"
  /\ Polled(t, EXAMPLE_HANDSHAKE)
  /\ IF tasks[t].type = "FLUXIO_TASK_ERROR" THEN
       \* return 1
       /\ pc' = "exit1"
       /\ tasks' = Taken(t)
       /\ UNCHANGED <<hist, released>>
     ELSE IF ~uri_ok THEN
       /\ pc' = "exit1"
       /\ tasks' = fluxio_task_free(Taken(t), t)
       /\ UNCHANGED <<released, hist>>
     ELSE
       \* the request carries the body whose data func is poll_req_upload
       /\ tasks' = PushNext(t, EXAMPLE_SEND)
       /\ hist' = Append(hist, Event("push", EXAMPLE_SEND, "none"))
       /\ released' = released \cup {"client"}
       /\ pc' = AfterBreak
  /\ last_cb' = NoCb
  /\ UNCHANGED <<variant, resp_body, freed_chunks, hdr_iter, sinkVars, connVars,
                 uploadVars, bodyVars, bg, polling, pend>>

upload_case_SEND(t) ==
  /\ variant = "upload"
  /\ Polled(t, EXAMPLE_SEND)
  /\ IF tasks[t].type = "FLUXIO_TASK_ERROR" THEN
       /\ pc' = "exit1"
       /\ tasks' = Taken(t)
       /\ UNCHANGED <<hist, hdr_iter, released, resp_body>>
     ELSE
       /\ hdr_iter' = hdr_iter + 1
       /\ resp_body' = "held"
       /\ tasks' = PushNext(t, EXAMPLE_RESP_BODY)
       /\ hist' = Append(hist, Event("push", EXAMPLE_RESP_BODY, "none"))
       /\ released' = released \cup {"resp"}
       /\ pc' = AfterBreak
  /\ last_cb' = NoCb
  /\ UNCHANGED <<variant, freed_chunks, sinkVars, connVars,
                 uploadVars, bodyVars, bg, polling, pend>>

\* ok tells whether write(1, ...) wrote the chunk; its result is not looked at.
upload_case_RESP_BODY(t, ok) ==
  /\ variant = "upload"
  /\ Polled(t, EXAMPLE_RESP_BODY)
  /\ IF tasks[t].type = "FLUXIO_TASK_ERROR" THEN
       /\ pc' = "exit1"
       /\ tasks' = Taken(t)
       /\ UNCHANGED <<freed_chunks, hist, released, resp_body, sinkVars, connVars>>
     ELSE IF tasks[t].type = "FLUXIO_TASK_BUF" THEN
       /\ out' = EmitChunk(out, tasks[t].val)
       /\ sink_failed' = (sink_failed \/ ~ok)
       /\ freed_chunks' = Append(freed_chunks, tasks[t].val)
       /\ tasks' = PushNext(t, EXAMPLE_RESP_BODY)
       /\ hist' = Append(hist, Event("push", EXAMPLE_RESP_BODY, "none"))
       /\ pc' = AfterBreak
       /\ UNCHANGED <<released, resp_body, connVars>>
     ELSE
       \* FLUXIO_TASK_EMPTY: the end of the body
       /\ tasks' = fluxio_task_free(Taken(t), t)
       /\ resp_body' = "freed"
       /\ free_conn_data({"exec", "upload_buf"})
       /\ pc' = "exit0"
       /\ UNCHANGED <<freed_chunks, hist, sinkVars>>
  /\ last_cb' = NoCb
  /\ UNCHANGED <<variant, hdr_iter, uploadVars, bodyVars, bg, polling, pend>>

(***************************************************************************)
(* fluxio_executor_poll returned NULL: the inner loop breaks and main goes *)
(* on to the wait phase.  The engine returns NULL only when it has polled  *)
(* every runnable task and none completed.                                 *)
(***************************************************************************)
NoneCompletable ==
  /\ \A t \in TaskIds : tasks[t].st \notin {"runnable", "ready"}
  /\ \A b \in 1..Len(bg) : bg[b].st # "ready"

drain_done ==
  /\ pc = "drain"
  /\ polling = 0
  /\ NoneCompletable
  /\ pc' = "wait"
  /\ last_cb' = NoCb
  /\ UNCHANGED <<variant, resp_body, released, freed_chunks, hdr_iter,
                 hist, tasks, bg, sinkVars, connVars, uploadVars, bodyVars,
                 polling, pend>>

(***************************************************************************)
(* The wait phase (the same in client.c and upload.c): the interest set,   *)
(* select with no timeout, and the firing of the ready directions.         *)
(***************************************************************************)
\* No direction is ever asked for.
Interest_none == {}

\* The write direction is never asked for.
Interest_read == {d \in {"r"} : Slot(d) # NULL}

\* Both directions are always asked for.
Interest_all == Dirs

Interest == {d \in Dirs : Slot(d) # NULL}

\* select(2): a failure, or a non-empty set of ready directions among those
\* asked for; with nothing ready it does not return.
SelectResults(interest) ==
  {[ret |-> -1, ready |-> {}]}
    \cup {[ret |-> Cardinality(S), ready |-> S] : S \in (SUBSET interest) \ {{}}}

\* Both slots are cleared whenever select returns, fired or not.
ClearFired_all(d, ready) == NULL

\* The fired handle is left in its slot.
ClearFired_keep(d, ready) == Slot(d)

\* The slot's value after the wait phase has dealt with direction d.
ClearFired(d, ready) == IF d \in ready THEN NULL ELSE Slot(d)

wait_phase(sel) ==
  /\ pc = "wait"
  /\ IF sel.ret < 0 THEN
       /\ pc' = "exit1"
       /\ UNCHANGED <<connVars, tasks>>
     ELSE
       LET W1 == IF "r" \in sel.ready THEN fluxio_waker_wake(wk, read_waker) ELSE wk
           T1 == IF "r" \in sel.ready THEN Resume(tasks, wk[read_waker].task) ELSE tasks
           W2 == IF "w" \in sel.ready THEN fluxio_waker_wake(W1, write_waker) ELSE W1
           T2 == IF "w" \in sel.ready THEN Resume(T1, wk[write_waker].task) ELSE T1
       IN /\ wk' = W2
          /\ tasks' = T2
          /\ read_waker' = ClearFired("r", sel.ready)
          /\ write_waker' = ClearFired("w", sel.ready)
          /\ pc' = "drain"
  /\ last_cb' = NoCb
  /\ UNCHANGED <<variant, resp_body, released, freed_chunks, hdr_iter,
                 hist, sinkVars, uploadVars, bodyVars, bg, polling, pend>>

(***************************************************************************)
(* The state when main enters the polling loop: the connection is set up,  *)
(* both slots are NULL and the handshake task has been pushed.             *)
(***************************************************************************)
FileLens == {upload_len}

\* What Init leaves open: the example and the length of the upload source.
InitWith(lens) ==  /\ variant \in {"client", "upload"}
  /\ pc = "drain"
  /\ read_waker = NULL
  /\ write_waker = NULL
  /\ resp_body = "null"
  /\ out = <<>>
  /\ sink_failed = FALSE
  /\ hdr_iter = 0
  /\ released = {}
  /\ freed_chunks = <<>>
  /\ hist = <<Event("push", EXAMPLE_HANDSHAKE, "none")>>
  /\ tasks = fluxio_executor_push(<<>>, EXAMPLE_HANDSHAKE)
  /\ bg = <<>>
  /\ polling = 0
  /\ pend = {}
  /\ wk = [w \in Handles |-> NoWaker]
  /\ last_cb = NoCb
  /\ body_len = 0
  /\ body_sent = 0
  /\ file_len \in (IF variant = "upload" THEN lens ELSE {0})
  /\ file_pos = 0
  /\ up_polls = <<>>
  /\ up_state = "open"
  /\ up_last = "none"
  /\ short_reads = 0

Init == InitWith(FileLens)

Engine ==
  \/ \E t \in TaskIds : EngineBegin(t)
  \/ EngineRead
  \/ EngineWrite
  \/ EngineUpload
  \/ EngineChunk
  \/ EngineSuspend
  \/ EngineComplete
  \/ EngineBackground

Client ==
  \/ \E t \in TaskIds, uri_ok \in BOOLEAN : client_case_HANDSHAKE(t, uri_ok)
  \/ \E t \in TaskIds : client_case_SEND(t)
  \/ \E t \in TaskIds : client_case_RESP_BODY(t)

Upload ==
  \/ \E t \in TaskIds, uri_ok \in BOOLEAN : upload_case_HANDSHAKE(t, uri_ok)
  \/ \E t \in TaskIds : upload_case_SEND(t)
  \/ \E t \in TaskIds, ok \in BOOLEAN : upload_case_RESP_BODY(t, ok)

Loop ==
  \/ \E b \in 1..Len(bg) : case_NOT_SET(b)
  \/ drain_done
  \/ \E sel \in SelectResults(Interest) : wait_phase(sel)

Next == Engine \/ Client \/ Upload \/ Loop

Spec == Init /\ [][Next]_vars

(***************************************************************************)
(* The upload producer on its own: upload.c with the send task being       *)
(* polled, over upload sources of many lengths.                            *)
(***************************************************************************)
UploadLens ==
  {k * upload_len + d : k \in 0..MaxBufs, d \in {0, 1, upload_len - 1}}

InitUpload ==
  /\ variant = "upload"
  /\ pc = "drain"
  /\ read_waker = NULL
  /\ write_waker = NULL
  /\ resp_body = "null"
  /\ out = <<>>
  /\ sink_failed = FALSE
  /\ hdr_iter = 0
  /\ released = {"client"}
  /\ freed_chunks = <<>>
  /\ hist = <<Event("push", EXAMPLE_HANDSHAKE, "none"),
              Event("done", EXAMPLE_HANDSHAKE, "FLUXIO_TASK_CLIENTCONN"),
              Event("push", EXAMPLE_SEND, "none")>>
  /\ tasks = <<[NewTask(EXAMPLE_HANDSHAKE) EXCEPT
                  !.st = "taken", !.type = "FLUXIO_TASK_CLIENTCONN",
                  !.polled = TRUE, !.freed = 1],
               [NewTask(EXAMPLE_SEND) EXCEPT !.polled = TRUE]>>
  /\ bg = <<>>
  /\ polling = 2
  /\ pend = {}
  /\ wk = [w \in Handles |-> NoWaker]
  /\ last_cb = NoCb
  /\ body_len = 0
  /\ body_sent = 0
  /\ file_len \in UploadLens
  /\ file_pos = 0
  /\ up_polls = <<>>
  /\ up_state = "open"
  /\ up_last = "none"
  /\ short_reads = 0

NextUpload == EngineUpload

SpecUpload == InitUpload /\ [][NextUpload]_vars

(***************************************************************************)
(* Properties.                                                             *)
(***************************************************************************)
ErrorType == "FLUXIO_TASK_ERROR"

\* The dispatcher has been handed a task that completed with an error.
ErrorTaken ==
  \E t \in TaskIds : tasks[t].st = "taken" /\ tasks[t].type = ErrorType

ErrorTakenAt(tag) ==
  \E t \in TaskIds :
    tasks[t].st = "taken" /\ tasks[t].type = ErrorType /\ tasks[t].tag = tag

Count(ev) == Cardinality({i \in 1..Len(hist) : hist[i] = ev})

\* C1: per direction, the live (obtained, not yet fired or freed) waker
\* handles are exactly the content of the connection's slot: none when the
\* slot is NULL, the one stored handle otherwise.  A would-block with the
\* slot occupied releases the old handle before the new one is stored.
C1_OneLiveWakerPerDirection ==
  \A d \in Dirs : Live(d) = (IF Slot(d) = NULL THEN {} ELSE {Slot(d)})

\* A would-block has just replaced the handle in an occupied read slot.
C1_Witness ==
  /\ last_cb.fn = "read_cb"
  /\ last_cb.ret = "FLUXIO_IO_PENDING"
  /\ last_cb.old # NULL
  /\ read_waker # last_cb.old

\* C2: when main is at select, fluxio_executor_poll has returned NULL: no
\* task of the executor is runnable or complete, and every task the
\* dispatcher pushed has been polled at least once and is suspended.
C2_DrainBeforeWait ==
  pc = "wait" =>
    /\ NoneCompletable
    /\ \A t \in TaskIds :
         InExecutor(t) => (tasks[t].polled /\ tasks[t].st = "suspended")

\* Main is at select with the send task, pushed in a drain phase, suspended.
C2_Witness ==
  /\ pc = "wait"
  /\ \E t \in TaskIds :
       /\ tasks[t].tag = EXAMPLE_SEND
       /\ tasks[t].st = "suspended"
       /\ tasks[t].polled

\* C3: read_cb and write_cb return FLUXIO_IO_PENDING exactly when the
\* transfer would block (EAGAIN), and on that return the direction's slot
\* holds the handle obtained from the context in that very call: live, bound
\* to the task being polled, and not the handle the slot held before.
C3_PendingIffRegistered ==
  last_cb.fn # "none" =>
    /\ (last_cb.ret = "FLUXIO_IO_PENDING")
         <=> (last_cb.n < 0 /\ last_cb.errno = "EAGAIN")
    /\ last_cb.ret = "FLUXIO_IO_PENDING" =>
         LET d == IF last_cb.fn = "read_cb" THEN "r" ELSE "w"
         IN /\ Slot(d) # NULL
            /\ Slot(d) = last_cb.waker
            /\ Slot(d) # last_cb.old
            /\ wk[Slot(d)].st = "live"
            /\ wk[Slot(d)].task = polling
            /\ polling # 0

\* write_cb has just returned pending while the read slot is occupied too.
C3_Witness ==
  /\ last_cb.fn = "write_cb"
  /\ last_cb.ret = "FLUXIO_IO_PENDING"
  /\ write_waker # NULL
  /\ read_waker # NULL

\* C4: no handle is consumed twice (fired or freed after having been fired
\* or freed), and a slot never keeps a handle that was fired: whatever a
\* slot holds is live.
C4_WakersOneShot ==
  /\ \A w \in Handles : wk[w].st # "misused"
  /\ \A d \in Dirs : Slot(d) # NULL => wk[Slot(d)].st = "live"

\* The wait phase has fired a handle: its slot is empty and its task, polled
\* before, is runnable again in the drain phase.
C4_Witness ==
  /\ pc = "drain"
  /\ \E w \in Handles : wk[w].st = "consumed"
  /\ \E t \in TaskIds : tasks[t].st = "runnable" /\ tasks[t].polled
  /\ read_waker = NULL

\* C5: a completion with FLUXIO_TASK_ERROR is the last event of the tag
\* chain; once the dispatcher has been handed it main has returned 1, and
\* no task is pushed or polled afterwards.  After a handshake error no send
\* task was ever pushed.
C5_ErrorsTerminal ==
  /\ [](/\ \A i \in 1..Len(hist) : hist[i].type = ErrorType => i = Len(hist)
        /\ ErrorTaken => pc = "exit1"
        /\ ErrorTakenAt(EXAMPLE_HANDSHAKE) => Len(tasks) = 1)
  /\ [][ErrorTaken => UNCHANGED <<tasks, hist, polling, bg>>]_vars

\* The handshake failed and main has returned 1.
C5_Witness ==
  /\ pc = "exit1"
  /\ ErrorTakenAt(EXAMPLE_HANDSHAKE)

\* C6: at most one tracked task is in the executor at any time; a send task
\* is pushed right after the handshake task completed with a connection, a
\* response-body task right after the send task completed with a response
\* or (upload.c) the previous response-body task completed with a chunk.
C6_TagChainSequential ==
  /\ Cardinality({t \in TaskIds : InExecutor(t)}) <= 1
  /\ \A i \in 1..Len(hist) :
       /\ hist[i] = Event("push", EXAMPLE_HANDSHAKE, "none") => i = 1
       /\ hist[i] = Event("push", EXAMPLE_SEND, "none") =>
            /\ i > 1
            /\ hist[i - 1] = Event("done", EXAMPLE_HANDSHAKE, "FLUXIO_TASK_CLIENTCONN")
       /\ hist[i] = Event("push", EXAMPLE_RESP_BODY, "none") =>
            /\ i > 1
            /\ \/ hist[i - 1] = Event("done", EXAMPLE_SEND, "FLUXIO_TASK_RESPONSE")
               \/ /\ variant = "upload"
                  /\ hist[i - 1] = Event("done", EXAMPLE_RESP_BODY, "FLUXIO_TASK_BUF")

\* The response-body tag is used again for the pull after a chunk.
C6_Witness ==
  \E i \in 2..Len(hist) :
    /\ hist[i] = Event("push", EXAMPLE_RESP_BODY, "none")
    /\ hist[i - 1] = Event("done", EXAMPLE_RESP_BODY, "FLUXIO_TASK_BUF")
    /\ \E t \in TaskIds : InExecutor(t) /\ tasks[t].tag = EXAMPLE_RESP_BODY

\* C7: in upload.c the chunks written are the body's chunks 1, 2, ... in
\* order, each once; each is released as it is written; there is one pull
\* per chunk written plus one; the end marker comes at most once, last, after
\* all chunks, and with it the body is released and main returns 0.
C7_IncrementalDownload ==
  variant = "upload" =>
    /\ out = [i \in 1..Len(out) |-> i]
    /\ freed_chunks = out
    /\ Len(out) <= body_len
    /\ Count(Event("push", EXAMPLE_RESP_BODY, "none"))
         = (IF resp_body = "null" THEN 0 ELSE Len(out) + 1)
    /\ Count(Event("done", EXAMPLE_RESP_BODY, "FLUXIO_TASK_EMPTY")) <= 1
    /\ Count(Event("done", EXAMPLE_RESP_BODY, "FLUXIO_TASK_EMPTY")) = 1 =>
         /\ hist[Len(hist)] = Event("done", EXAMPLE_RESP_BODY, "FLUXIO_TASK_EMPTY")
         /\ Len(out) = body_len
    /\ (resp_body = "freed") <=> (pc = "exit0")
    /\ pc = "exit0" =>
         Count(Event("done", EXAMPLE_RESP_BODY, "FLUXIO_TASK_EMPTY")) = 1

\* upload.c has written two chunks and ended in success.
C7_Witness ==
  /\ variant = "upload"
  /\ pc = "exit0"
  /\ Len(out) = 2

(***************************************************************************)
(* The upload producer (checked under SpecUpload).                         *)
(***************************************************************************)
Ceil(a, b) == (a + b - 1) \div b

NChunks == Cardinality({i \in 1..Len(up_polls) : up_polls[i][2] > 0})

\* Each chunk holds the source's bytes that follow the previous chunk's, the
\* first from offset 0: the chunks delivered so far concatenate to a prefix
\* of the source.
Contiguous ==
  \A i \in 1..Len(up_polls) :
    up_polls[i][1] = (IF i = 1 THEN 0 ELSE up_polls[i - 1][1] + up_polls[i - 1][2])

\* The stream has ended: the last result is the one NULL chunk, and the
\* chunks before it cover the source's file_len bytes.
EndsAtLength ==
  /\ Len(up_polls) >= 1
  /\ up_polls[Len(up_polls)] = <<file_len, 0>>
  /\ \A i \in 1..Len(up_polls) : up_polls[i][2] = 0 => i = Len(up_polls)

\* C8 as stated: the stream of an upload source of length L is
\* ceil(L / upload_len) non-empty chunks and then one end-of-stream result,
\* the chunks concatenating to the source; for L = upload_len, one chunk and
\* the end-of-stream result.
C8_AsStated ==
  /\ Contiguous
  /\ up_state = "eos" =>
       /\ EndsAtLength
       /\ NChunks = Ceil(file_len, upload_len)
       /\ file_len = upload_len =>
            up_polls = << <<0, upload_len>>, <<upload_len, 0>> >>

\* C8, amended: the chunks are non-empty, at most upload_len bytes each and
\* concatenate to the source; the NULL chunk comes once, last, when all
\* file_len bytes have been delivered; there are at least
\* ceil(file_len / upload_len) chunks, and exactly that many when no read
\* returned fewer bytes than were asked for and left; for file_len =
\* upload_len that is one chunk and then the end-of-stream result.
C8_UploadRoundTrip ==
  /\ Contiguous
  /\ \A i \in 1..Len(up_polls) :
       /\ up_polls[i][2] <= upload_len
       /\ up_polls[i][2] = 0 => (i = Len(up_polls) /\ up_state = "eos")
  /\ up_state = "eos" =>
       /\ EndsAtLength
       /\ NChunks >= Ceil(file_len, upload_len)
       /\ short_reads = 0 => NChunks = Ceil(file_len, upload_len)
       /\ (file_len = upload_len /\ short_reads = 0) =>
            up_polls = << <<0, upload_len>>, <<upload_len, 0>> >>

\* A source of exactly one buffer has been delivered as one chunk and the
\* end-of-stream result.
C8_Witness ==
  /\ up_state = "eos"
  /\ file_len = upload_len
  /\ Len(up_polls) = 2

(***************************************************************************)
(* Termination of the request.                                             *)
(***************************************************************************)
\* C9: when main returns 0, the handshake, the send and the response body
\* have each completed successfully once, the end of the body being the last
\* event; the response headers were iterated once; every chunk of the body
\* was written, in order; both slots are NULL and no handle is left live.
C9_CleanSuccess ==
  pc = "exit0" =>
    /\ Count(Event("done", EXAMPLE_HANDSHAKE, "FLUXIO_TASK_CLIENTCONN")) = 1
    /\ Count(Event("done", EXAMPLE_SEND, "FLUXIO_TASK_RESPONSE")) = 1
    /\ Count(Event("done", EXAMPLE_RESP_BODY, "FLUXIO_TASK_EMPTY")) = 1
    /\ hist[Len(hist)] = Event("done", EXAMPLE_RESP_BODY, "FLUXIO_TASK_EMPTY")
    /\ hdr_iter = 1
    /\ body_sent = body_len
    /\ out = [i \in 1..body_len |-> i]
    /\ read_waker = NULL
    /\ write_waker = NULL
    /\ \A w \in Handles : wk[w].st \in {"unused", "consumed"}
    /\ {"exec", "conn"} \subseteq released

\* client.c returned 0 after a body of at least one chunk, and
\* free_conn_data released a write waker that was still registered.
C9_Witness ==
  /\ pc = "exit0"
  /\ variant = "client"
  /\ body_len >= 1
  /\ "write_waker" \in released

\* C10: when main returns 1 because a task completed with an error, no waker
\* of the connection is left registered or live and the response body is not
\* left held.
C10_ReleasedOnError ==
  (pc = "exit1" /\ ErrorTaken) =>
    /\ read_waker = NULL
    /\ write_waker = NULL
    /\ \A w \in Handles : wk[w].st # "live"
    /\ resp_body # "held"

(***************************************************************************)
(* Ownership of tasks and chunks.                                          *)
(***************************************************************************)
\* C11: every task fluxio_executor_poll has returned was given to
\* fluxio_task_free exactly once, and no task before it was returned; every
\* chunk taken from a task was given to fluxio_buf_free exactly once.
C11_ReleasedExactlyOnce ==
  /\ \A t \in TaskIds :
       tasks[t].freed = (IF tasks[t].st = "taken" THEN 1 ELSE 0)
  /\ \A b \in 1..Len(bg) :
       bg[b].freed = (IF bg[b].st = "taken" THEN 1 ELSE 0)
  /\ variant = "upload" => freed_chunks = out
  /\ \A i, j \in 1..Len(freed_chunks) :
       freed_chunks[i] = freed_chunks[j] => i = j

(***************************************************************************)
(* The wait phase.                                                         *)
(***************************************************************************)
\* C12: when main is at select, the drain phase has ended with nothing
\* completable, and the interest set is not empty: at least one slot holds a
\* live handle, so select is never called with nothing to wait for.
C12_WaitHasInterest ==
  pc = "wait" =>
    /\ NoneCompletable
    /\ Interest # {}
    /\ \E d \in Dirs : Slot(d) # NULL /\ wk[Slot(d)].st = "live"

\* Main is at select with the write direction alone in the interest set.
C12_Witness ==
  /\ pc = "wait"
  /\ Interest = {"w"}

(***************************************************************************)
(* Leaving the polling loop.                                               *)
(***************************************************************************)
Exits == {"exit0", "exit1"}

\* The step leaves the loop.
LeavesLoop == pc \notin Exits /\ pc' \in Exits

\* The dispatcher is handed a terminal completion of the tracked request: an
\* error task of any tag (return 1) or the end of the response body (return 0).
TerminalDispatch ==
  \E t \in TaskIds :
    /\ tasks[t].st = "ready"
    /\ tasks'[t].st = "taken"
    /\ \/ tasks[t].type = ErrorType /\ pc' = "exit1"
       \/ /\ tasks[t].tag = EXAMPLE_RESP_BODY
          /\ tasks[t].type = "FLUXIO_TASK_EMPTY"
          /\ pc' = "exit0"

\* select failed: main returns 1 from the wait phase.
SelectFailed ==
  /\ pc = "wait"
  /\ pc' = "exit1"
  /\ UNCHANGED <<tasks, read_waker, write_waker>>

\* The handshake succeeded and building the request failed: main returns 1
\* from the handshake case.
SetupFailed ==
  \E t \in TaskIds :
    /\ tasks[t].st = "ready"
    /\ tasks[t].tag = EXAMPLE_HANDSHAKE
    /\ tasks[t].type = "FLUXIO_TASK_CLIENTCONN"
    /\ tasks'[t].st = "taken"
    /\ Len(tasks') = Len(tasks)
    /\ pc' = "exit1"

\* C13 as stated: every step that leaves the loop is the dispatch of a
\* terminal completion of the tracked request.
C13_AsStated == [][LeavesLoop => TerminalDispatch]_vars

\* C13, amended: every step that leaves the loop is the dispatch of a
\* terminal completion of the tracked request, a failure of select, or a
\* failure to build the request in the handshake case; and main does not
\* come back once it has returned.
C13_LoopExits ==
  [][/\ LeavesLoop => (TerminalDispatch \/ SelectFailed \/ SetupFailed)
     /\ pc \in Exits => pc' = pc]_vars

\* Main has returned 1 from the wait phase: the tracked task is still
\* suspended in the executor and no error task was dispatched.
C13_Witness ==
  /\ pc = "exit1"
  /\ ~ErrorTaken
  /\ \E t \in TaskIds : tasks[t].st = "suspended"

(***************************************************************************)
(* The exit code.                                                          *)
(***************************************************************************)
\* C14: main returns 0 only if nothing failed: no task completed with an
\* error, no socket transfer failed, the read of the upload source did not
\* fail, and every write of response bytes to the output wrote them.
C14_ExitCode ==
  pc = "exit0" =>
    /\ ~ErrorTaken
    /\ \A t \in TaskIds : tasks[t].type # ErrorType
    /\ up_state # "error"
    /\ ~sink_failed

(***************************************************************************)
(* Who changes the waker slots.                                            *)
(***************************************************************************)
CbOf(d) == IF d = "r" THEN "read_cb" ELSE "write_cb"

\* read_cb / write_cb stores the handle it has just obtained in slot d.
AdapterStores(d) ==
  /\ polling # 0
  /\ last_cb'.fn = CbOf(d)
  /\ last_cb'.ret = "FLUXIO_IO_PENDING"
  /\ Slot(d)' = last_cb'.waker
  /\ Slot(d)' # NULL

\* The wait phase fires the handle of slot d and clears the slot.
WaitFires(d) ==
  /\ pc = "wait"
  /\ pc' = "drain"
  /\ Slot(d) # NULL
  /\ Slot(d)' = NULL
  /\ wk'[Slot(d)].st = "consumed"

\* free_conn_data, called on terminal success, frees the handle of slot d
\* and clears the slot.
TeardownFrees(d) ==
  /\ pc = "drain"
  /\ pc' = "exit0"
  /\ Slot(d) # NULL
  /\ Slot(d)' = NULL
  /\ wk'[Slot(d)].st = "consumed"
  /\ "conn" \in released'

\* C15 as stated: a slot changes only when read_cb / write_cb stores a
\* handle in it or the wait phase clears it on firing its handle.
C15_AsStated ==
  [][\A d \in Dirs :
       Slot(d)' # Slot(d) => (AdapterStores(d) \/ WaitFires(d))]_vars

\* C15, amended: a slot changes only when read_cb / write_cb stores a handle
\* in it, when the wait phase clears it on firing its handle, or when the
\* terminal-success branch of the response-body case calls free_conn_data,
\* which frees its handle and clears it; no other branch of the dispatcher
\* changes a slot.
C15_SlotWriters ==
  [][\A d \in Dirs :
       Slot(d)' # Slot(d) =>
         (AdapterStores(d) \/ WaitFires(d) \/ TeardownFrees(d))]_vars

\* Main has returned 0 and free_conn_data has freed a read waker that was
\* still registered.
C15_Witness ==
  /\ pc = "exit0"
  /\ "read_waker" \in released

(***************************************************************************)
(* The adapter's other returns.                                            *)
(***************************************************************************)
\* C16: a call of read_cb or write_cb makes one transfer.  It returns
\* FLUXIO_IO_ERROR exactly when the transfer failed for a reason other than
\* EAGAIN, and the count exactly when the transfer moved zero or more bytes;
\* on both returns it has obtained no handle and has left both slots and
\* every handle as they were.
C16_ErrorAndCountFrame ==
  [][last_cb'.fn # "none" =>
       /\ (last_cb'.ret = "FLUXIO_IO_ERROR")
            <=> (last_cb'.n < 0 /\ last_cb'.errno # "EAGAIN")
       /\ (last_cb'.ret = "COUNT") <=> (last_cb'.n >= 0)
       /\ last_cb'.ret \in {"FLUXIO_IO_ERROR", "COUNT"} =>
            /\ last_cb'.waker = NULL
            /\ UNCHANGED <<read_waker, write_waker, wk>>]_vars

\* read_cb has just returned FLUXIO_IO_ERROR while a handle of an earlier
\* would-block is still in the read slot.
C16_Witness ==
  /\ last_cb.fn = "read_cb"
  /\ last_cb.ret = "FLUXIO_IO_ERROR"
  /\ read_waker # NULL

(***************************************************************************)
(* The unset tag.                                                          *)
(***************************************************************************)
\* C17: the dispatch of a completed task with the unset tag releases that
\* task once and does nothing else: no task is pushed, the tracked request's
\* tasks and tag chain, the response body, the output and what main has
\* released stay as they were, the slots and handles are untouched, and main
\* goes on with the next fluxio_executor_poll of the drain phase.
C17_NotSetFrame ==
  [][(\E b \in 1..Len(bg) : bg[b].st = "ready" /\ bg'[b].st = "taken") =>
       /\ \A b \in 1..Len(bg) :
            (bg[b].st = "ready" /\ bg'[b].st = "taken") => bg'[b].freed = 1
       /\ Len(bg') = Len(bg)
       /\ pc = "drain"
       /\ pc' = "drain"
       /\ UNCHANGED <<tasks, hist, read_waker, write_waker, wk, resp_body,
                      released, freed_chunks, hdr_iter, out, sink_failed,
                      polling>>]_vars

\* A background task has been released while the tracked task is suspended
\* on a registered read waker, and the drain phase goes on.
C17_Witness ==
  /\ pc = "drain"
  /\ \E b \in 1..Len(bg) : bg[b].st = "taken" /\ bg[b].freed = 1
  /\ read_waker # NULL
  /\ \E t \in TaskIds : tasks[t].st = "suspended"

(***************************************************************************)
(* A failed read of the upload source.                                     *)
(***************************************************************************)
\* The send task of upload.c.
SendTasks == {t \in TaskIds : tasks[t].tag = EXAMPLE_SEND}

\* C18: poll_req_upload reports the end of the stream only when the whole
\* source has been read, and a failed read as FLUXIO_POLL_ERROR, with no
\* chunk produced.  From then on the send task neither suspends nor
\* succeeds: it is being polled, or has completed with FLUXIO_TASK_ERROR, or
\* has been dispatched as an error with main returning 1.  No response is
\* taken, no response-body task is pushed, and main does not return 0.
C18_UploadReadFailure ==
  /\ [](up_state = "eos" => file_pos = file_len)
  /\ [](up_state = "error" =>
          /\ up_last = "FLUXIO_POLL_ERROR"
          /\ \A i \in 1..Len(up_polls) : up_polls[i][2] > 0
          /\ pc \in {"drain", "exit1"}
          /\ resp_body = "null"
          /\ Count(Event("done", EXAMPLE_SEND, "FLUXIO_TASK_RESPONSE")) = 0
          /\ Count(Event("push", EXAMPLE_RESP_BODY, "none")) = 0
          /\ \E t \in SendTasks :
               \/ polling = t /\ pc = "drain"
               \/ tasks[t].st = "ready" /\ tasks[t].type = ErrorType /\ pc = "drain"
               \/ tasks[t].st = "taken" /\ tasks[t].type = ErrorType /\ pc = "exit1")
  /\ [][(up_state # "error" /\ up_state' = "error") =>
          UNCHANGED <<up_polls, file_pos>>]_vars

\* The read of the upload source failed after a chunk had been delivered,
\* and main has returned 1 from the send case.
C18_Witness ==
  /\ up_state = "error"
  /\ Len(up_polls) >= 1
  /\ pc = "exit1"
  /\ ErrorTakenAt(EXAMPLE_SEND)

WakersOf(t) == {w \in Handles : wk[w].st = "live" /\ wk[w].task = t}

\* C20: when a poll ends with the task suspended, each direction whose
\* callback returned pending during that poll has in its slot the live handle
\* registered for this task.  While main is at select, every suspended task
\* has an outstanding handle, and each of its outstanding handles is in the
\* slot of its direction, which is in the interest set.  A step of the wait
\* phase that fires a slot makes the handle's suspended task runnable for the
\* drain phase that follows, and leaves a slot it does not fire as it was.
C20_NoLostWakeup ==
  /\ [](pc = "wait" =>
          \A t \in TaskIds : tasks[t].st = "suspended" =>
            /\ WakersOf(t) # {}
            /\ \A w \in WakersOf(t) :
                 /\ Slot(wk[w].dir) = w
                 /\ wk[w].dir \in Interest)
  /\ [][(polling # 0 /\ tasks'[polling].st = "suspended") =>
          \A d \in pend :
            /\ Slot(d) # NULL
            /\ Slot(d)' = Slot(d)
            /\ wk'[Slot(d)] = [st |-> "live", dir |-> d, task |-> polling]]_vars
  /\ [][(pc = "wait" /\ pc' = "drain") =>
          \A d \in Dirs :
            IF Slot(d) # NULL /\ Slot(d)' = NULL
            THEN tasks[wk[Slot(d)].task].st = "suspended" =>
                   tasks'[wk[Slot(d)].task].st = "runnable"
            ELSE /\ Slot(d)' = Slot(d)
                 /\ Slot(d) # NULL => wk'[Slot(d)] = wk[Slot(d)]]_vars

\* The handshake task, woken by the wait phase that fired every registered
\* handle, is being polled again.
C20_Witness ==
  /\ pc = "drain"
  /\ polling # 0
  /\ Len(tasks) = 1
  /\ read_waker = NULL
  /\ write_waker = NULL
  /\ \E w \in Handles : wk[w].st = "consumed"

(***************************************************************************)
(* Termination.  The polling loop under the assumptions that select does   *)
(* not fail and returns whenever a direction was asked for, and that the   *)
(* engine and main keep running: the engine ends each poll, completes each *)
(* task after finitely many re-polls (at most MaxWakers would-blocks in    *)
(* all) and delivers a finite body (at most MaxChunks chunks).             *)
(***************************************************************************)
\* select returns with some of the directions asked for ready.
wait_ready ==
  \E sel \in SelectResults(Interest) : sel.ret >= 0 /\ wait_phase(sel)

LoopFair ==
  \/ \E b \in 1..Len(bg) : case_NOT_SET(b)
  \/ drain_done
  \/ wait_ready

NextFair == Engine \/ Client \/ Upload \/ LoopFair

\* A poll of a task's future ends: the future returns Pending or Ready
\* after finitely many calls of the callbacks.
EndOfPoll == EngineSuspend \/ EngineComplete

SpecFair ==
  Init /\ [][NextFair]_vars /\ WF_vars(NextFair) /\ WF_vars(EndOfPoll)

\* C21: the polling loop terminates: main eventually returns 0 or 1.  It
\* neither alternates between the drain phase and the wait phase forever nor
\* stays at select forever.
C21_Termination == <>(pc \in Exits)

\* upload.c has returned 0 after the wait phase fired at least two handles:
\* the loop went through select and back to the drain phase before it ended.
C21_Witness ==
  /\ pc = "exit0"
  /\ variant = "upload"
  /\ Cardinality({w \in Handles : wk[w].st = "consumed"}) >= 2
  /\ "read_waker" \notin released
  /\ "write_waker" \notin released

====
